---- MODULE Spec2Model ----
(***************************************************************************)
(* Model of server.js: the webhook relay between the WhatsApp / Instagram  *)
(* webhooks, the in-memory conversation store and the WebSocket observers. *)
(* Every handler of the event loop is one action: a handler runs to        *)
(* completion, the only suspension points are the awaited axios calls.     *)
(***************************************************************************)
EXTENDS Integers, Sequences, FiniteSets, TLC

\* ------------------------------------------------------------- bounds
MaxClock    == 1      \* Date.now() takes the values 0..MaxClock
MaxWebhooks == 2      \* webhook POSTs handled in one run
MaxSends    == 2      \* send_message commands handled in one run
MaxFaults   == 1      \* observer sockets whose send() starts to throw
MaxSteps    == 5      \* handler activations in one run

Conns      == {"w1", "w2"}         \* WebSocket objects handed to wss.on('connection')
ContactIds == {"u1", "u2"}         \* wa_id / Instagram sender ids
Texts      == {"a", "b"}           \* message texts
SendTargets == {"u1"}              \* contactId of the send_message commands

\* ------------------------------------------------------------- program constants
URLInsta                   == "graph/v23.0/IG_BUSNESS_ID/messages"
urlWhatsapp                == "graph/v22.0/PHONE_NUMBER_ID/messages"
accessTokenConfigWhatsapp  == "Bearer WHATSAPP_ACCESS_TOKEN"
accessTokenConfigInstagram == "Bearer INSTAGRAM_ACCESS_TOKEN"

InstaPlaceholder == "[Message Instagram non textuel]"
NaNTime          == -1             \* new Date(NaN): the invalid date

\* ------------------------------------------------------------- values
\* Identifiers are pairs <<prefix, n>>: <<"temp", t>> is the string `temp-${t}`,
\* <<"insta", t>> is `insta-${t}`, <<"wamid", k>> / <<"mid", k>> are platform ids.
NoId      == <<"", 0>>
NoMsg     == [id |-> NoId, contactId |-> "", text |-> "", direction |-> "",
              timestamp |-> 0, status |-> ""]
NoContact == [id |-> "", name |-> "", lastMessage |-> "", lastMessageTime |-> 0]

VARIABLES
    clock,        \* the value Date.now() returns
    typeMessage,  \* let typeMessage (line 42)
    contacts,     \* Map contactId -> contact
    messages,     \* Map contactId -> array of messages
    clients,      \* Map clientId -> ws, in insertion order
    readyState,   \* per WebSocket object: "NONE", "OPEN", "CLOSING", "CLOSED"
    faulty,       \* the WebSocket objects whose send() throws
    clientIdOf,   \* the const clientId captured by each connection's closures
    inbox,        \* per WebSocket object: the frames written to it, in order
    published,    \* log of broadcast() calls: event and the sockets open then
    sends,        \* the handleClientMessage activations (suspended or finished);
                  \* echo / confirm: the indexes in `published` of their broadcasts
    reads,        \* the markMessageAsRead activations (suspended or finished)
    hooks,        \* log of webhook POSTs: body and HTTP status answered
    steps         \* number of handler activations so far

vars == <<clock, typeMessage, contacts, messages, clients, readyState, faulty,
          clientIdOf, inbox, published, sends, reads, hooks, steps>>

\* One more handler runs.
Step == steps < MaxSteps /\ steps' = steps + 1

\* ------------------------------------------------------------- wire events
MessageEvent(m, c) == [type |-> "message", message |-> m, contact |-> c,
                       contacts |-> {}, error |-> ""]
ContactsEvent(cs)  == [type |-> "contacts", message |-> NoMsg, contact |-> NoContact,
                       contacts |-> cs, error |-> ""]
ErrorEvent         == [type |-> "error", message |-> NoMsg, contact |-> NoContact,
                       contacts |-> {}, error |-> "Failed to send message"]

\* A frame written to a socket: the event, and the index in `published` of the
\* broadcast() call that wrote it (0 for a direct ws.send).
Frame(n, data) == [pub |-> n, event |-> data]

\* ------------------------------------------------------------- Map helpers
\* clients is a JS Map kept as the sequence of its entries in insertion order.
MapHas(m, k)    == \E i \in 1..Len(m) : m[i].id = k
MapGet(m, k)    == {m[i].ws : i \in {j \in 1..Len(m) : m[j].id = k}}
MapSet(m, k, v) == IF MapHas(m, k)
                   THEN [i \in 1..Len(m) |-> IF m[i].id = k THEN [id |-> k, ws |-> v] ELSE m[i]]
                   ELSE Append(m, [id |-> k, ws |-> v])
MapDelete(m, k) == SelectSeq(m, LAMBDA e : e.id # k)

\* new Date(parseInt(ts) * 1000); an absent timestamp parses to NaN
ToDate(ts) == IF ts < 0 THEN NaNTime ELSE ts * 1000

\* ------------------------------------------------------------- broadcast
\* The state a handler works on: the stores and the logs it can change.
World == [contacts |-> contacts, messages |-> messages, inbox |-> inbox,
          published |-> published, reads |-> reads]

\* clients.forEach(client => { if (client.readyState === OPEN) client.send(message) })
\* A throwing send() leaves the forEach: the later entries are not visited.
RECURSIVE forEachClient(_, _, _, _)
forEachClient(i, ib, n, data) ==
    IF i > Len(clients) THEN [inbox |-> ib, threw |-> FALSE]
    ELSE LET client == clients[i].ws IN
         IF readyState[client] = "OPEN"
         THEN IF client \in faulty
              THEN [inbox |-> ib, threw |-> TRUE]
              ELSE forEachClient(i + 1, [ib EXCEPT ![client] = Append(@, Frame(n, data))],
                                 n, data)
         ELSE forEachClient(i + 1, ib, n, data)

broadcast(w, data) ==
    LET n == Len(w.published) + 1
        r == forEachClient(1, w.inbox, n, data)
    IN  [w |-> [w EXCEPT !.inbox = r.inbox,
                         !.published = Append(@, [event |-> data,
                                    open |-> {c \in Conns : readyState[c] = "OPEN"}])],
         threw |-> r.threw]

\* ------------------------------------------------------------- platform requests
\* url / Authorization / payload of markMessageAsRead, built when it is called
ReadRequest(tm, messageId) ==
    [url |-> IF tm = "instagram" THEN URLInsta ELSE urlWhatsapp,
     token |-> IF tm = "instagram" THEN accessTokenConfigInstagram
               ELSE accessTokenConfigWhatsapp,
     messaging_product |-> "whatsapp", status |-> "read", message_id |-> messageId]

markMessageAsRead(w, tm, messageId) ==
    [w EXCEPT !.reads = Append(@, [req |-> ReadRequest(tm, messageId),
                                   state |-> "awaiting"])]

\* ------------------------------------------------------------- inbound
getMessageText(message) ==
    IF message.hasText THEN message.body
    ELSE IF "image" \in message.media THEN "[Image]"
    ELSE IF "video" \in message.media THEN "[Video]"
    ELSE IF "audio" \in message.media THEN "[Audio]"
    ELSE IF "document" \in message.media THEN "[Document]"
    ELSE "[Media message]"

AppendMessage(msgs, contactId, m) ==
    IF contactId \in DOMAIN msgs
    THEN [msgs EXCEPT ![contactId] = Append(@, m)]
    ELSE msgs @@ (contactId :> <<m>>)

\* lines 123-163; a TypeError on value.sender / value.message is caught at 212
InstagramBranch(w, value) ==
    IF ~value.hasSender THEN w
    ELSE
    LET senderId  == value.sender
        timestamp == ToDate(value.ts)
        text      == IF value.hasMessage /\ value.hasText /\ value.body # ""
                     THEN value.body ELSE InstaPlaceholder
    IN  IF ~value.hasMessage THEN w
        ELSE
        LET msgData == [id |-> IF value.hasId THEN value.id ELSE <<"insta", clock>>,
                        contactId |-> senderId, text |-> text, direction |-> "incoming",
                        timestamp |-> timestamp, status |-> "received"]
            c1 == IF senderId \in DOMAIN w.contacts THEN w.contacts
                  ELSE w.contacts @@ (senderId :>
                         [id |-> senderId, name |-> "Instagram User " \o senderId,
                          lastMessage |-> text, lastMessageTime |-> timestamp])
            m1 == AppendMessage(w.messages, senderId, msgData)
            w1 == [w EXCEPT !.contacts = c1, !.messages = m1]
        IN  broadcast(w1, MessageEvent(msgData, c1[senderId])).w

\* lines 168-210; a TypeError on value.messages[0] / value.contacts[0] /
\* contact.profile and an exception out of broadcast are caught at 212
WhatsappBranch(w, value, tm) ==
    IF ~value.hasMessage \/ ~value.hasSender THEN w
    ELSE
    LET contactId == value.sender
        msgData == [id |-> IF value.hasId THEN value.id ELSE NoId,
                    contactId |-> contactId, text |-> getMessageText(value),
                    direction |-> "incoming", timestamp |-> ToDate(value.ts),
                    status |-> "delivered"]
    IN  IF contactId \notin DOMAIN w.contacts /\ ~value.hasProfile THEN w
        ELSE
        LET c1 == IF contactId \in DOMAIN w.contacts THEN w.contacts
                  ELSE w.contacts @@ (contactId :>
                         [id |-> contactId, name |-> value.name,
                          lastMessage |-> msgData.text,
                          lastMessageTime |-> msgData.timestamp])
            m1 == AppendMessage(w.messages, contactId, msgData)
            c2 == [c1 EXCEPT ![contactId].lastMessage = msgData.text,
                             ![contactId].lastMessageTime = msgData.timestamp]
            w1 == [w EXCEPT !.contacts = c2, !.messages = m1]
            b  == broadcast(w1, MessageEvent(msgData, c2[contactId]))
        IN  IF b.threw THEN b.w ELSE markMessageAsRead(b.w, tm, msgData.id)

handleIncomingMessage(w, value, typeData, tm) ==
    IF typeData = "instagram" THEN InstagramBranch(w, value)
    ELSE WhatsappBranch(w, value, tm)

\* ------------------------------------------------------------- webhook payloads
\* What handleIncomingMessage reads of a `value`:
\*   WhatsApp  hasSender = value.contacts[0], sender = wa_id, hasProfile/name =
\*             contact.profile(.name), hasMessage = value.messages[0], id = message.id,
\*             ts = message.timestamp, hasText/body = message.text(.body), media =
\*             the media fields present
\*   Instagram hasSender = value.sender, sender = sender.id, hasMessage =
\*             value.message, hasId/id = message.mid, ts = value.timestamp,
\*             hasText/body = message.text
TsOf(text) == IF text = "a" THEN 1 ELSE 2
KOf(text)  == IF text = "a" THEN 1 ELSE 2

WaText(u, text) ==
    [hasSender |-> TRUE, sender |-> u, hasProfile |-> TRUE, name |-> "Alice",
     hasMessage |-> TRUE, hasId |-> TRUE, id |-> <<"wamid", KOf(text)>>,
     ts |-> TsOf(text), hasText |-> TRUE, body |-> text, media |-> {}]
WaImage(u)    == [WaText(u, "b") EXCEPT !.hasText = FALSE, !.body = "",
                                        !.media = {"image", "document"}]
WaStatuses    == [WaText("u1", "a") EXCEPT !.hasMessage = FALSE, !.hasSender = FALSE]
WaNoProfile   == [WaText("u2", "a") EXCEPT !.hasProfile = FALSE]
IgText(u, text) ==
    [hasSender |-> TRUE, sender |-> u, hasProfile |-> FALSE, name |-> "",
     hasMessage |-> TRUE, hasId |-> TRUE, id |-> <<"mid", KOf(text)>>,
     ts |-> TsOf(text), hasText |-> TRUE, body |-> text, media |-> {}]
IgNoMid       == [IgText("u1", "a") EXCEPT !.hasId = FALSE]
IgNoMessage   == [IgText("u1", "a") EXCEPT !.hasMessage = FALSE, !.hasText = FALSE]

WaValues == {WaText("u1", "a"), WaText("u1", "b"), WaStatuses, WaNoProfile}
IgValues == {IgText("u1", "a"), IgText("u1", "b"), IgText("u2", "a"), IgNoMid,
             IgNoMessage}

\* entry: hasList = entry.changes / entry.messaging is present
Entry(field, v) == [hasList |-> TRUE, list |-> <<[field |-> field, value |-> v]>>]
NoListEntry     == [hasList |-> FALSE, list |-> <<>>]
Body(obj, es)   == [object |-> obj, hasEntry |-> TRUE, entry |-> es]
NoEntryBody(obj) == [object |-> obj, hasEntry |-> FALSE, entry |-> <<>>]

WA == "whatsapp_business_account"
IG == "instagram"

Bodies ==
    {Body(WA, <<Entry("messages", v)>>) : v \in WaValues}
    \cup {Body(IG, <<Entry("messaging", v)>>) : v \in IgValues}
    \cup {NoEntryBody(WA), NoEntryBody("page"),
          Body(WA, <<Entry("messages", WaText("u1", "a")), NoListEntry>>)}

\* ------------------------------------------------------------- POST /webhook
\* entry.messaging.forEach / entry.changes.forEach over one entry
RECURSIVE forEachValue(_, _, _, _, _)
forEachValue(w, list, j, typeData, tm) ==
    IF j > Len(list) THEN w
    ELSE IF typeData = "whatsapp" /\ list[j].field # "messages"
         THEN forEachValue(w, list, j + 1, typeData, tm)
         ELSE forEachValue(handleIncomingMessage(w, list[j].value, typeData, tm),
                           list, j + 1, typeData, tm)

\* body.entry.forEach; entry.changes.forEach on an entry without changes is a
\* TypeError that leaves the loop (Instagram tests entry.messaging first)
RECURSIVE forEachEntry(_, _, _, _, _)
forEachEntry(w, entry, i, typeData, tm) ==
    IF i > Len(entry) THEN [w |-> w, threw |-> FALSE]
    ELSE IF ~entry[i].hasList
         THEN IF typeData = "instagram"
              THEN forEachEntry(w, entry, i + 1, typeData, tm)
              ELSE [w |-> w, threw |-> TRUE]
         ELSE forEachEntry(forEachValue(w, entry[i].list, 1, typeData, tm),
                           entry, i + 1, typeData, tm)

Classify(object) == IF object = "instagram" THEN "instagram"
                    ELSE IF object = "whatsapp_business_account" THEN "whatsapp"
                    ELSE "none"

PostWebhook(body) ==
    LET typeData == Classify(body.object)
        tm == IF typeData = "none" THEN typeMessage ELSE typeData
        r  == IF typeData = "none" THEN [w |-> World, threw |-> FALSE]
              ELSE IF ~body.hasEntry THEN [w |-> World, threw |-> TRUE]
              ELSE forEachEntry(World, body.entry, 1, typeData, tm)
    IN  /\ Len(hooks) < MaxWebhooks
        /\ Step
        /\ typeMessage' = tm
        /\ contacts' = r.w.contacts
        /\ messages' = r.w.messages
        /\ inbox' = r.w.inbox
        /\ published' = r.w.published
        /\ reads' = r.w.reads
        /\ hooks' = Append(hooks, [body |-> body,
                                   status |-> IF r.threw THEN 500 ELSE 200])
        /\ UNCHANGED <<clock, clients, readyState, faulty, clientIdOf, sends>>

\* ------------------------------------------------------------- observers
\* The socket objects are named in the order the server accepts them.
Earlier(a, b) == a = "w1" /\ b = "w2"

\* a snapshot that lists the contact ids only
ContactIdsSnapshot(cs) == {[NoContact EXCEPT !.id = k] : k \in DOMAIN cs}

\* Array.from(contacts.values()) (line 235)
ContactsSnapshot(cs) == {cs[k] : k \in DOMAIN cs}

\* wss.on('connection'): clientId = Date.now().toString(); clients.set; snapshot
Connect(ws) ==
    /\ readyState[ws] = "NONE"
    /\ \A other \in Conns : Earlier(other, ws) => readyState[other] # "NONE"
    /\ Step
    /\ readyState' = [readyState EXCEPT ![ws] = "OPEN"]
    /\ clientIdOf' = [clientIdOf EXCEPT ![ws] = clock]
    /\ clients' = MapSet(clients, clock, ws)
    /\ inbox' = [inbox EXCEPT ![ws] = Append(@,
                    Frame(0, ContactsEvent(ContactsSnapshot(contacts))))]
    /\ UNCHANGED <<clock, typeMessage, contacts, messages, faulty, published,
                   sends, reads, hooks>>

\* The socket leaves OPEN (peer gone, close frame); its 'close' event is still queued.
SocketCloses(ws) ==
    /\ readyState[ws] = "OPEN"
    /\ Step
    /\ readyState' = [readyState EXCEPT ![ws] = "CLOSING"]
    /\ UNCHANGED <<clock, typeMessage, contacts, messages, clients, faulty,
                   clientIdOf, inbox, published, sends, reads, hooks>>

\* ws.on('close'): clients.delete(clientId)
OnClose(ws) ==
    /\ readyState[ws] = "CLOSING"
    /\ Step
    /\ readyState' = [readyState EXCEPT ![ws] = "CLOSED"]
    /\ clients' = MapDelete(clients, clientIdOf[ws])
    /\ UNCHANGED <<clock, typeMessage, contacts, messages, faulty, clientIdOf,
                   inbox, published, sends, reads, hooks>>

\* From now on send() on this open socket throws.
SendStartsFailing(ws) ==
    /\ readyState[ws] = "OPEN"
    /\ ws \notin faulty
    /\ Cardinality(faulty) < MaxFaults
    /\ Step
    /\ faulty' = faulty \cup {ws}
    /\ UNCHANGED <<clock, typeMessage, contacts, messages, clients, readyState,
                   clientIdOf, inbox, published, sends, reads, hooks>>

Tick ==
    /\ clock < MaxClock
    /\ Step
    /\ clock' = clock + 1
    /\ UNCHANGED <<typeMessage, contacts, messages, clients, readyState, faulty,
                   clientIdOf, inbox, published, sends, reads, hooks>>

\* ------------------------------------------------------------- outbound
NoRequest == [url |-> "", token |-> "", messaging_product |-> "", to |-> "",
              type |-> "", body |-> "", recipient_type |-> ""]

\* SendRequest with the Authorization header never switched to Instagram
SendRequestWhatsappToken(tm, contactId, text) ==
    [url |-> IF tm = "instagram" THEN URLInsta ELSE urlWhatsapp,
     token |-> accessTokenConfigWhatsapp,
     messaging_product |-> IF tm = "instagram" THEN "instagram" ELSE "whatsapp",
     to |-> contactId, type |-> "text", body |-> text,
     recipient_type |-> IF tm = "whatsapp" THEN "individual" ELSE ""]

\* SendRequest with the payload always tagged and shaped for WhatsApp
SendRequestWhatsappPayload(tm, contactId, text) ==
    [url |-> IF tm = "instagram" THEN URLInsta ELSE urlWhatsapp,
     token |-> IF tm = "instagram" THEN accessTokenConfigInstagram
               ELSE accessTokenConfigWhatsapp,
     messaging_product |-> "whatsapp",
     to |-> contactId, type |-> "text", body |-> text,
     recipient_type |-> "individual"]

\* lines 326-346: what axios.post is given; recipient_type "" is an absent field
SendRequest(tm, contactId, text) ==
    [url |-> IF tm = "instagram" THEN URLInsta ELSE urlWhatsapp,
     token |-> IF tm = "instagram" THEN accessTokenConfigInstagram
               ELSE accessTokenConfigWhatsapp,
     messaging_product |-> IF tm = "instagram" THEN "instagram" ELSE "whatsapp",
     to |-> contactId, type |-> "text", body |-> text,
     recipient_type |-> IF tm = "whatsapp" THEN "individual" ELSE ""]

\* the catch block of handleClientMessage (lines 309-315)
SendError(ib, clientId) ==
    LET found == MapGet(clients, clientId) IN
    IF found = {} THEN ib
    ELSE LET ws == CHOOSE x \in found : TRUE IN
         IF readyState[ws] = "OPEN" /\ ws \notin faulty
         THEN [ib EXCEPT ![ws] = Append(@, Frame(0, ErrorEvent))]
         ELSE ib

\* the optimistic insert that also refreshes the contact's preview
StoreTemporarilyWithPreview(w, contactId, tempMsg) ==
    [w EXCEPT !.messages = AppendMessage(w.messages, contactId, tempMsg),
              !.contacts = IF contactId \in DOMAIN w.contacts
                           THEN [w.contacts EXCEPT ![contactId].lastMessage = tempMsg.text,
                                    ![contactId].lastMessageTime = tempMsg.timestamp]
                           ELSE w.contacts]

\* lines 276-278: messages.get(contactId).push(tempMsg); contacts is not touched
StoreTemporarily(w, contactId, tempMsg) ==
    [w EXCEPT !.messages = AppendMessage(w.messages, contactId, tempMsg)]

\* ws.on('message') with a send_message command: handleClientMessage up to the
\* awaited axios.post (lines 264-287 and 324-346)
ClientSendMessage(ws, contactId, text) ==
    LET clientId == clientIdOf[ws]
        tempMsg == [id |-> <<"temp", clock>>, contactId |-> contactId, text |-> text,
                    direction |-> "outgoing", timestamp |-> clock, status |-> "sending"]
        w1 == StoreTemporarily(World, contactId, tempMsg)
        b  == broadcast(w1, MessageEvent(tempMsg, NoContact))
    IN  /\ readyState[ws] = "OPEN"
        /\ Len(sends) < MaxSends
        /\ Step
        /\ contacts' = b.w.contacts
        /\ messages' = b.w.messages
        /\ published' = b.w.published
        /\ inbox' = IF b.threw THEN SendError(b.w.inbox, clientId) ELSE b.w.inbox
        /\ sends' = Append(sends,
                      [ws |-> ws, clientId |-> clientId, tempMsg |-> tempMsg,
                       req |-> IF b.threw THEN NoRequest
                               ELSE SendRequest(typeMessage, contactId, text),
                       state |-> IF b.threw THEN "aborted" ELSE "awaiting",
                       caught |-> b.threw, realId |-> NoId,
                       echo |-> Len(b.w.published), confirm |-> 0])
        /\ UNCHANGED <<clock, typeMessage, clients, readyState, faulty,
                       clientIdOf, reads, hooks>>

\* ws.on('message') with an auth command, or any other type: nothing is stored
ClientOtherMessage(ws) ==
    /\ readyState[ws] = "OPEN"
    /\ UNCHANGED vars

\* response.messages[0].id: the platform answers the i-th request with a fresh id
RealId(i) == <<"wamid", 7 + i>>

\* contactMessages.findIndex(m => m.id === id): 0 stands for -1
RECURSIVE findIndex(_, _, _)
findIndex(contactMessages, id, i) ==
    IF i > Len(contactMessages) THEN 0
    ELSE IF contactMessages[i].id = id THEN i
    ELSE findIndex(contactMessages, id, i + 1)

\* lines 296-299
Reconcile(msgs, contactId, tempId, realMsg) ==
    LET msgIndex == findIndex(msgs[contactId], tempId, 1) IN
    IF msgIndex # 0 THEN [msgs EXCEPT ![contactId][msgIndex] = realMsg] ELSE msgs

\* axios.post resolves: lines 289-305
SendSucceeds(i) ==
    LET s == sends[i]
        realId == RealId(i)
        realMsg == [s.tempMsg EXCEPT !.id = realId, !.status = "sent"]
        w1 == [World EXCEPT !.messages =
                  Reconcile(messages, s.tempMsg.contactId, s.tempMsg.id, realMsg)]
        b  == broadcast(w1, MessageEvent(realMsg, NoContact))
    IN  /\ s.state = "awaiting"
        /\ Step
        /\ messages' = b.w.messages
        /\ published' = b.w.published
        /\ inbox' = IF b.threw THEN SendError(b.w.inbox, s.clientId) ELSE b.w.inbox
        /\ sends' = [sends EXCEPT ![i].state = "sent", ![i].realId = realId,
                                  ![i].caught = b.threw,
                                  ![i].confirm = Len(b.w.published)]
        /\ UNCHANGED <<clock, typeMessage, contacts, clients, readyState, faulty,
                       clientIdOf, reads, hooks>>

\* axios.post rejects: lines 307-316
SendFails(i) ==
    /\ sends[i].state = "awaiting"
    /\ Step
    /\ inbox' = SendError(inbox, sends[i].clientId)
    /\ sends' = [sends EXCEPT ![i].state = "failed", ![i].caught = TRUE]
    /\ UNCHANGED <<clock, typeMessage, contacts, messages, clients, readyState,
                   faulty, clientIdOf, published, reads, hooks>>

\* the axios.post of markMessageAsRead settles (ok) or rejects (~ok): a rejection
\* is caught and logged at lines 368-370, nothing is kept of the outcome
ReadSettles(i, ok) ==
    /\ reads[i].state = "awaiting"
    /\ Step
    /\ reads' = [reads EXCEPT ![i].state = "settled"]
    /\ UNCHANGED <<clock, typeMessage, contacts, messages, clients, readyState,
                   faulty, clientIdOf, inbox, published, sends, hooks>>

\* ------------------------------------------------------------- specification
Init ==
    /\ clock = 0
    /\ typeMessage = ""
    /\ contacts = <<>>
    /\ messages = <<>>
    /\ clients = <<>>
    /\ readyState = [c \in Conns |-> "NONE"]
    /\ faulty = {}
    /\ clientIdOf = [c \in Conns |-> 0]
    /\ inbox = [c \in Conns |-> <<>>]
    /\ published = <<>>
    /\ sends = <<>>
    /\ reads = <<>>
    /\ hooks = <<>>
    /\ steps = 0

Next ==
    \/ Tick
    \/ \E body \in Bodies : PostWebhook(body)
    \/ \E ws \in Conns : Connect(ws)
    \/ \E ws \in Conns : SocketCloses(ws)
    \/ \E ws \in Conns : OnClose(ws)
    \/ \E ws \in Conns : SendStartsFailing(ws)
    \/ \E ws \in Conns, contactId \in SendTargets, text \in Texts :
          ClientSendMessage(ws, contactId, text)
    \/ \E ws \in Conns : ClientOtherMessage(ws)
    \/ \E i \in 1..Len(sends) : SendSucceeds(i)
    \/ \E i \in 1..Len(sends) : SendFails(i)
    \/ \E i \in 1..Len(reads), ok \in BOOLEAN : ReadSettles(i, ok)

Spec == Init /\ [][Next]_vars

\* ------------------------------------------------------------- text extraction
\* Inbound messages of every text / media shape, on both platforms: the text field
\* present with a body, present with an empty body, or absent; the media fields
\* (WhatsApp: message.image / video / audio / document; Instagram: the types of
\* message.attachments, which the code never reads).
MediaSets == {{}, {"image"}, {"video"}, {"audio"}, {"document"},
              {"image", "document"}, {"video", "audio"}}
TextShape(v, hasText, body, media) ==
    [v EXCEPT !.hasText = hasText, !.body = body, !.media = media]
TextValues(v) ==
    {TextShape(v, t[1], t[2], m) :
        t \in {<<TRUE, "a">>, <<TRUE, "">>, <<FALSE, "">>}, m \in MediaSets}
TextBodies ==
    {Body(WA, <<Entry("messages", v)>>) : v \in TextValues(WaText("u1", "a"))}
    \cup {Body(IG, <<Entry("messaging", v)>>) : v \in TextValues(IgText("u1", "a"))}

NextText == \E body \in TextBodies : PostWebhook(body)

SpecText == Init /\ [][NextText]_vars

\* ------------------------------------------------------------- claims
Last(q) == q[Len(q)]
Incoming(q) == SelectSeq(q, LAMBDA m : m.direction = "incoming")
\* the messages of the inbound message events published for contact k, in order
RECURSIVE ArrivedFrom(_, _, _)
ArrivedFrom(pubs, k, n) ==
    IF n > Len(pubs) THEN <<>>
    ELSE IF pubs[n].event.message.direction = "incoming"
            /\ pubs[n].event.message.contactId = k
         THEN <<pubs[n].event.message>> \o ArrivedFrom(pubs, k, n + 1)
         ELSE ArrivedFrom(pubs, k, n + 1)
Arrived(k) == ArrivedFrom(published, k, 1)
Received(ws, n) == {p \in 1..Len(inbox[ws]) : inbox[ws][p].pub = n}
InLiveSet(ws) == \E i \in 1..Len(clients) : clients[i].ws = ws

\* C1: for every contact, the stored inbound messages are the accepted inbound
\* messages in arrival order, and the contact's lastMessage / lastMessageTime are
\* the text and timestamp of the last of them.
C1_HistoryAndPreviewFollowInbound ==
    \A k \in DOMAIN contacts :
        /\ Incoming(messages[k]) = Arrived(k)
        /\ Arrived(k) # <<>> =>
              /\ contacts[k].lastMessage = Last(Arrived(k)).text
              /\ contacts[k].lastMessageTime = Last(Arrived(k)).timestamp

\* C2: after a send whose platform call succeeded, the history of its contact holds
\* exactly one message with the platform-confirmed id, that message is the
\* optimistic message with status 'sent', and no message with the send's
\* provisional id remains.
C2_SucceededSendIsReconciled ==
    \A i \in 1..Len(sends) :
        sends[i].state = "sent" =>
            LET h == messages[sends[i].tempMsg.contactId]
                confirmed == {j \in 1..Len(h) : h[j].id = sends[i].realId}
            IN  /\ Cardinality(confirmed) = 1
                /\ \A j \in confirmed :
                      h[j] = [sends[i].tempMsg EXCEPT !.id = sends[i].realId,
                                                      !.status = "sent"]
                /\ \A j \in 1..Len(h) : h[j].id # sends[i].tempMsg.id

\* C3: no step removes or moves a stored message or changes its text: every history
\* only grows at its end, whatever the order of inbound events, send commands and
\* send responses.
C3_OrderAndTextPreserved ==
    [][\A k \in DOMAIN messages :
          /\ k \in DOMAIN messages'
          /\ Len(messages'[k]) >= Len(messages[k])
          /\ \A j \in 1..Len(messages[k]) :
                /\ messages'[k][j].text = messages[k][j].text
                /\ messages'[k][j].timestamp = messages[k][j].timestamp
                /\ messages'[k][j].direction = messages[k][j].direction]_vars

\* C4: as long as no socket's send has failed, every published event was written to
\* each observer connection that was open when it was published, and to no other.
C4_PublishReachesOpenObservers ==
    faulty = {} =>
        \A n \in 1..Len(published) : \A ws \in Conns :
            (ws \in published[n].open) <=> (Received(ws, n) # {})

\* C5: a send command handled when the most recently classified webhook event was
\* an Instagram one is sent to the Instagram endpoint with the Instagram token and
\* product tag; when it was a WhatsApp one, with the WhatsApp ones.
RECURSIVE LastPlatform(_, _)
LastPlatform(log, n) ==
    IF n = 0 THEN "none"
    ELSE IF log[n].body.object = IG THEN "instagram"
    ELSE IF log[n].body.object = WA THEN "whatsapp"
    ELSE LastPlatform(log, n - 1)

C6_FailureGoesToOriginatorOnly ==
    [][\A i \in 1..Len(sends) :
          (/\ sends[i].state = "awaiting"
           /\ Len(sends') = Len(sends)
           /\ sends'[i].state = "failed"
           /\ readyState[sends[i].ws] = "OPEN"
           /\ faulty = {}) =>
              /\ messages' = messages
              /\ \E j \in 1..Len(messages[sends[i].tempMsg.contactId]) :
                    messages[sends[i].tempMsg.contactId][j] = sends[i].tempMsg
              /\ inbox'[sends[i].ws] = Append(inbox[sends[i].ws], Frame(0, ErrorEvent))
              /\ \A ws \in Conns \ {sends[i].ws} : inbox'[ws] = inbox[ws]]_vars

\* C7: a webhook POST of a known platform whose body has no entry list, whose
\* WhatsApp entry has no changes list, or whose value lacks the sender or the
\* message, changes no contact and no history, publishes nothing, issues no read
\* receipt and is answered with 200.
Malformed(body) ==
    /\ body.object \in {WA, IG}
    /\ \/ ~body.hasEntry
       \/ \E i \in 1..Len(body.entry) : body.object = WA /\ ~body.entry[i].hasList
       \/ \E i \in 1..Len(body.entry) : \E j \in 1..Len(body.entry[i].list) :
             \/ ~body.entry[i].list[j].value.hasSender
             \/ ~body.entry[i].list[j].value.hasMessage

C7_MalformedInboundIsDroppedAndAcknowledged ==
    [][(Len(hooks') = Len(hooks) + 1 /\ Malformed(Last(hooks').body)) =>
          /\ contacts' = contacts
          /\ messages' = messages
          /\ published' = published
          /\ inbox' = inbox
          /\ reads' = reads
          /\ Last(hooks').status = 200]_vars

\* C8: every event published by a step is written to every connection of the live
\* set that is open and whose own send does not fail, and no send command is
\* abandoned or answered with an error because publishing raised.
C8_PublishIsolatesFailures ==
    [][/\ \A n \in (Len(published) + 1)..Len(published') : \A ws \in Conns :
             (InLiveSet(ws) /\ readyState[ws] = "OPEN" /\ ws \notin faulty) =>
                 \E p \in 1..Len(inbox'[ws]) : inbox'[ws][p].pub = n
       /\ \A i \in 1..Len(sends') :
             sends'[i].state \in {"aborted", "sent"} => ~sends'[i].caught]_vars

\* C9: as long as no socket's send has failed, every published inbound message has
\* a read-receipt request issued for its id.
C9_ReadReceiptForEveryInbound ==
    faulty = {} =>
        \A n \in 1..Len(published) :
            published[n].event.message.direction = "incoming" =>
                \E r \in 1..Len(reads) :
                    reads[r].req.message_id = published[n].event.message.id

\* C10: as long as no socket's send has failed, for every send that succeeded each
\* connection open at both of its publications received the 'sending' event with
\* the provisional id and, later, the 'sent' event with the platform id.
C10_SendingThenSentToOpenObservers ==
    faulty = {} =>
        \A i \in 1..Len(sends) :
            sends[i].state = "sent" =>
                /\ published[sends[i].echo].event = MessageEvent(sends[i].tempMsg, NoContact)
                /\ published[sends[i].confirm].event =
                      MessageEvent([sends[i].tempMsg EXCEPT !.id = sends[i].realId,
                                                            !.status = "sent"], NoContact)
                /\ sends[i].echo < sends[i].confirm
                /\ \A ws \in Conns :
                      (/\ ws \in published[sends[i].echo].open
                       /\ ws \in published[sends[i].confirm].open) =>
                          \E p \in Received(ws, sends[i].echo) :
                              \E q \in Received(ws, sends[i].confirm) : p < q

\* C11: every stored inbound message was published exactly once, as a 'message'
\* event whose contact is the sender's contact refreshed with that message: its
\* lastMessage and lastMessageTime are the message's text and timestamp.
C11_InboundEventCarriesRefreshedContact ==
    /\ \A k \in DOMAIN messages : Len(Incoming(messages[k])) = Len(Arrived(k))
    /\ \A n \in 1..Len(published) :
          published[n].event.message.direction = "incoming" =>
              /\ published[n].event.type = "message"
              /\ published[n].event.contact.id = published[n].event.message.contactId
              /\ published[n].event.contact.lastMessage = published[n].event.message.text
              /\ published[n].event.contact.lastMessageTime =
                    published[n].event.message.timestamp

\* C12: a webhook POST that carries a message of a sender not yet in contacts
\* creates the contact of that sender, with a non-empty name; no step removes a
\* contact or changes the id or name of one.
Senders(body) ==
    IF body.object \notin {WA, IG} \/ ~body.hasEntry THEN {}
    ELSE {body.entry[i].list[j].value.sender :
             i \in {x \in 1..Len(body.entry) : body.entry[x].hasList},
             j \in {y \in 1..1 :
                      \E x \in 1..Len(body.entry) :
                          /\ body.entry[x].hasList
                          /\ body.entry[x].list[y].value.hasSender
                          /\ body.entry[x].list[y].value.hasMessage}}

C12_UnseenSenderGetsOneNamedContact ==
    [][/\ \A k \in DOMAIN contacts :
             /\ k \in DOMAIN contacts'
             /\ contacts'[k].id = contacts[k].id
             /\ contacts'[k].name = contacts[k].name
       /\ Len(hooks') = Len(hooks) + 1 =>
             \A u \in Senders(Last(hooks').body) \ DOMAIN contacts :
                 /\ u \in DOMAIN contacts'
                 /\ contacts'[u].id = u
                 /\ contacts'[u].name # ""]_vars

\* C13: a send to a known contact is routed to the platform of the inbound message
\* that created the contact, whatever webhook events were classified since.
FirstIncoming(k) == Incoming(messages[k])[1]
Origin(k) == IF FirstIncoming(k).status = "delivered" THEN "whatsapp" ELSE "instagram"

C13_SendFollowsContactOrigin ==
    [][(/\ Len(sends') = Len(sends) + 1
        /\ Last(sends').state = "awaiting"
        /\ Last(sends').tempMsg.contactId \in DOMAIN contacts) =>
          LET req == Last(sends').req
              origin == Origin(Last(sends').tempMsg.contactId)
          IN  /\ req.messaging_product = origin
              /\ req.url = IF origin = "instagram" THEN URLInsta ELSE urlWhatsapp
              /\ req.token = IF origin = "instagram" THEN accessTokenConfigInstagram
                             ELSE accessTokenConfigWhatsapp]_vars

\* C14: no step removes a stored message; a stored message either stays as it is,
\* or it had status 'sending' and becomes its confirmed copy: the same message with
\* the platform's id and status 'sent'. Messages with a terminal status never change.
C14_OnlyChangeIsConfirmation ==
    [][\A k \in DOMAIN messages :
          /\ k \in DOMAIN messages'
          /\ Len(messages'[k]) >= Len(messages[k])
          /\ \A j \in 1..Len(messages[k]) :
                \/ messages'[k][j] = messages[k][j]
                \/ /\ messages[k][j].status = "sending"
                   /\ messages'[k][j] = [messages[k][j] EXCEPT
                                            !.id = messages'[k][j].id,
                                            !.status = "sent"]
                   /\ messages'[k][j].id # messages[k][j].id]_vars

\* C15: a step of a send command (the optimistic insert, the reconciliation, the
\* failure handling) leaves the contacts map as it was.
C15_SendLeavesContactsUnchanged ==
    [][sends' # sends => contacts' = contacts]_vars

C15_Witness ==
    \E i \in 1..Len(sends) :
        /\ sends[i].state = "sent"
        /\ sends[i].tempMsg.contactId \in DOMAIN contacts
        /\ contacts[sends[i].tempMsg.contactId].lastMessage # sends[i].tempMsg.text

\* C16: a webhook POST with one inbound message, of any text / media shape and on
\* either platform, publishes one message whose text is not empty; it is the text
\* field when that is present with a body, else '[Image]', '[Video]', '[Audio]' or
\* '[Document]' for the first of these media kinds the message has, else a generic
\* placeholder.
GenericPlaceholders == {"[Media message]", InstaPlaceholder}

C16_TextExtractionPolicy ==
    [][(Len(hooks') = Len(hooks) + 1 /\ Last(hooks').body \in TextBodies) =>
          LET v == Last(hooks').body.entry[1].list[1].value
              text == Last(published').event.message.text
          IN  /\ Len(published') = Len(published) + 1
              /\ Last(published').event.message.direction = "incoming"
              /\ text # ""
              /\ (v.hasText /\ v.body # "") => text = v.body
              /\ ~v.hasText =>
                    IF "image" \in v.media THEN text = "[Image]"
                    ELSE IF "video" \in v.media THEN text = "[Video]"
                    ELSE IF "audio" \in v.media THEN text = "[Audio]"
                    ELSE IF "document" \in v.media THEN text = "[Document]"
                    ELSE text \in GenericPlaceholders]_vars

\* C17: a connecting observer is first written the 'contacts' snapshot of the
\* contacts known at that moment; frames already written never change; a frame
\* written by a step comes from a direct send or from a broadcast made in that step,
\* never from an earlier one; no broadcast is written twice to the same socket.
C17_SnapshotFirstThenNoReplay ==
    [][\A ws \in Conns :
          /\ (readyState[ws] = "NONE" /\ readyState'[ws] = "OPEN") =>
                inbox'[ws] = <<Frame(0, ContactsEvent({contacts[k] : k \in DOMAIN contacts}))>>
          /\ Len(inbox'[ws]) >= Len(inbox[ws])
          /\ \A p \in 1..Len(inbox[ws]) : inbox'[ws][p] = inbox[ws][p]
          /\ \A p \in (Len(inbox[ws]) + 1)..Len(inbox'[ws]) :
                \/ inbox'[ws][p].pub = 0
                \/ /\ inbox'[ws][p].pub > Len(published)
                   /\ inbox'[ws][p].pub <= Len(published')
                   /\ inbox'[ws][p].event = published'[inbox'[ws][p].pub].event
                   /\ readyState[ws] = "OPEN"
          /\ \A n \in 1..Len(published') :
                Cardinality({p \in 1..Len(inbox'[ws]) : inbox'[ws][p].pub = n}) <= 1]_vars

C17_Witness ==
    \E ws \in Conns : \E n, m \in 1..Len(published) :
        /\ n < m
        /\ Received(ws, n) = {}
        /\ Received(ws, m) # {}
        /\ inbox[ws][1].event.type = "contacts"
        /\ inbox[ws][1].event.contacts # {}

\* C18: as long as no socket's send has failed, every send command is in exactly one
\* of Sending (its optimistic message is stored), Sent (its confirmed copy is stored
\* and was published, no error was raised) or Failed (an error was raised, its
\* optimistic message is still stored, nothing was confirmed).
C18_SendEndsSentOrFailed ==
    faulty = {} =>
        \A i \in 1..Len(sends) :
            LET s == sends[i]
                h == messages[s.tempMsg.contactId]
                confirmed == [s.tempMsg EXCEPT !.id = s.realId, !.status = "sent"]
            IN  /\ s.state \in {"awaiting", "sent", "failed"}
                /\ s.state = "awaiting" =>
                      /\ ~s.caught
                      /\ \E j \in 1..Len(h) : h[j] = s.tempMsg
                /\ s.state = "sent" =>
                      /\ ~s.caught
                      /\ \E j \in 1..Len(h) : h[j] = confirmed
                      /\ published[s.confirm].event = MessageEvent(confirmed, NoContact)
                /\ s.state = "failed" =>
                      /\ s.caught
                      /\ s.confirm = 0
                      /\ \E j \in 1..Len(h) : h[j] = s.tempMsg

\* C19: two stored messages of which one has status 'sending' and the other has
\* status 'sending' or is an inbound message never have the same id.
C19_ProvisionalIdsUnique ==
    \A k1, k2 \in DOMAIN messages :
        \A j1 \in 1..Len(messages[k1]) : \A j2 \in 1..Len(messages[k2]) :
            (/\ <<k1, j1>> # <<k2, j2>>
             /\ messages[k1][j1].status = "sending"
             /\ \/ messages[k2][j2].status = "sending"
                \/ messages[k2][j2].direction = "incoming") =>
                messages[k1][j1].id # messages[k2][j2].id

\* C20: the request of a send is built from typeMessage as it is when the command
\* is handled; no later step changes the request or the optimistic message of a
\* send; and when the response arrives the confirmed copy of the optimistic message
\* is stored and published, whatever typeMessage has become meanwhile.
C20_SendPlatformFixedAtCommand ==
    [][/\ \A i \in 1..Len(sends) :
             /\ Len(sends') >= i
             /\ sends'[i].req = sends[i].req
             /\ sends'[i].tempMsg = sends[i].tempMsg
             /\ (sends[i].state = "awaiting" /\ sends'[i].state = "sent") =>
                   LET realMsg == [sends[i].tempMsg EXCEPT !.id = sends'[i].realId,
                                                           !.status = "sent"]
                       h == messages'[sends[i].tempMsg.contactId]
                   IN  /\ sends'[i].realId # NoId
                       /\ \E j \in 1..Len(h) : h[j] = realMsg
                       /\ Last(published').event = MessageEvent(realMsg, NoContact)
       /\ (Len(sends') = Len(sends) + 1 /\ Last(sends').state = "awaiting") =>
             LET s == Last(sends')
                 ig == typeMessage = "instagram"
             IN  /\ s.req.url = IF ig THEN URLInsta ELSE urlWhatsapp
                 /\ s.req.token = IF ig THEN accessTokenConfigInstagram
                                  ELSE accessTokenConfigWhatsapp
                 /\ s.req.messaging_product = IF ig THEN "instagram" ELSE "whatsapp"
                 /\ s.req.recipient_type = IF typeMessage = "whatsapp" THEN "individual"
                                           ELSE ""
                 /\ s.req.to = s.tempMsg.contactId
                 /\ s.req.body = s.tempMsg.text]_vars

\* a send answered after an Instagram inbound message was published during its await
C20_Witness ==
    \E i \in 1..Len(sends) : \E n \in 1..Len(published) :
        /\ sends[i].state = "sent"
        /\ sends[i].req.messaging_product = "whatsapp"
        /\ typeMessage = "instagram"
        /\ sends[i].echo < n
        /\ n < sends[i].confirm
        /\ published[n].event.message.direction = "incoming"
        /\ published[n].event.message.status = "received"

====
